---- MODULE Spec2Model ----
(***************************************************************************)
(* Model of src/components/CreateForm.tsx: the interview-request form.     *)
(*                                                                         *)
(* Strings are sequences of one-character strings, so that trim, length    *)
(* (z.string().min(1)), includes and join are computed and not assumed.    *)
(* The form values held by react-hook-form are the record `values`; the    *)
(* staging text of the skill editor is `skillInput`; `errors` is           *)
(* formState.errors as written by handleSubmit's resolver run and cleared  *)
(* by form.reset(); `inflight` counts the onSubmit calls suspended at      *)
(* `await fetch(...)` (after the await the continuation reads only         *)
(* response.ok, form and router, never `values`); `lastOp` records which   *)
(* handler ran last and what it did to the outside world (the fetch body   *)
(* it built, router.refresh and console.error calls, an error leaving the  *)
(* handler).  The pending requests are interchangeable, so a count stands  *)
(* for them and any of them may settle next.  react-hook-form's own        *)
(* re-validation of a field edited after a submit is library behaviour     *)
(* outside this file: here `errors` changes at handleSubmit and reset only. *)
(***************************************************************************)
EXTENDS Integers, Sequences, FiniteSets, TLC

VARIABLES values, skillInput, errors, user, inflight, lastOp

vars == <<values, skillInput, errors, user, inflight, lastOp>>

(***************************************************************************)
(* Bounds and explored inputs                                              *)
(***************************************************************************)
\* at most this many onSubmit calls are suspended at the fetch at once
MaxInflight == 2

\* text the user types into the staging input (line 184)
SkillTexts ==
  { <<>>, <<" ">>, <<" ", "a", " ">>, <<"A">>, <<"b", " ">> }

\* text the user types into the role input (line 135-139)
RoleTexts == { <<>>, <<" ">>, <<"F", "E">> }

Technical == <<"t","e","c","h","n","i","c","a","l">>
Behavioral == <<"b","e","h","a","v","i","o","r","a","l">>
Mixed == <<"m","i","x","e","d">>
\* SelectItem values of the type Select (lines 118-120)
TypeOptions == {Technical, Behavioral, Mixed}
\* the options explored
TypeInputs == {Technical}

Entry == <<"e","n","t","r","y">>
Mid == <<"m","i","d">>
Senior == <<"s","e","n","i","o","r">>
Staff == <<"s","t","a","f","f">>
Manager == <<"m","a","n","a","g","e","r">>
\* SelectItem values of the level Select (lines 161-165)
LevelOptions == {Entry, Mid, Senior, Staff, Manager}
\* the options explored
LevelInputs == {Mid}

\* the literals of the amount union (lines 35-41) and the Select options (241)
AmountLiterals == {3, 5, 10, 15, 20}
\* the options explored
AmountInputs == {3, 5}

\* useUser(): no user, or a user with an id
Users == { <<>>, <<[id |-> "u_123"]>> }

(***************************************************************************)
(* Pure helpers                                                            *)
(***************************************************************************)
WhiteSpace == {" "}

RECURSIVE TrimStart(_)
TrimStart(s) ==
  IF s # <<>> /\ Head(s) \in WhiteSpace THEN TrimStart(Tail(s)) ELSE s

RECURSIVE TrimEnd(_)
TrimEnd(s) ==
  IF s # <<>> /\ s[Len(s)] \in WhiteSpace
    THEN TrimEnd(SubSeq(s, 1, Len(s) - 1))
    ELSE s

\* String.prototype.trim
Trim(s) == TrimEnd(TrimStart(s))

\* Array.prototype.includes
Includes(list, x) == \E i \in 1..Len(list) : list[i] = x

\* Array.prototype.filter((s) => s !== skill)
FilterNot(list, skill) == SelectSeq(list, LAMBDA s : s # skill)

RECURSIVE Join(_, _)
\* Array.prototype.join(sep)
Join(list, sep) ==
  IF list = <<>> THEN <<>>
  ELSE IF Len(list) = 1 THEN list[1]
  ELSE list[1] \o sep \o Join(Tail(list), sep)

\* variant: join(",")
CommaOnly == <<",">>

\* the separator of values.specialtySkills.join(", ")
CommaSpace == <<",", " ">>

\* useForm defaultValues
defaultValues ==
  [ type |-> <<>>, role |-> <<>>, level |-> <<>>,
    specialtySkills |-> <<>>, amount |-> 5 ]

RequiredMsg == "This field is required."
MinSkillsMsg == "Please add at least one skill."
ElementMsg == "String must contain at least 1 character(s)"
UnionMsg == "Invalid input"

\* z.string().min(1)
StringMin1(s) == Len(s) >= 1

\* variant: the schema without .min(1) on the specialtySkills array
FailedFieldsNoMinCount(v) ==
     { f \in {"type", "role", "level"} : ~StringMin1(v[f]) }
  \cup { f \in {"specialtySkills"} :
           \E i \in 1..Len(v.specialtySkills) : ~StringMin1(v.specialtySkills[i]) }
  \cup { f \in {"amount"} : v.amount \notin AmountLiterals }

\* the fields formSchema rejects in v
FailedFields(v) ==
     { f \in {"type", "role", "level"} : ~StringMin1(v[f]) }
  \cup { f \in {"specialtySkills"} :
           \/ Len(v.specialtySkills) < 1
           \/ \E i \in 1..Len(v.specialtySkills) : ~StringMin1(v.specialtySkills[i]) }
  \cup { f \in {"amount"} : v.amount \notin AmountLiterals }

FieldMessage(v, f) ==
  CASE f \in {"type", "role", "level"} -> RequiredMsg
    [] f = "specialtySkills" ->
         IF Len(v.specialtySkills) < 1 THEN MinSkillsMsg ELSE ElementMsg
    [] OTHER -> UnionMsg

\* zodResolver(formSchema): the field errors of v, empty when v is valid
formSchema(v) == [ f \in FailedFields(v) |-> FieldMessage(v, f) ]

NoErrors == [ f \in {} |-> "" ]

\* user?.id : a zero- or one-element sequence
UserId(u) == IF u = <<>> THEN <<>> ELSE <<u[1].id>>

\* the object given to JSON.stringify in onSubmit; an undefined userid is
\* dropped by JSON.stringify
RequestBody(v, u) ==
  LET base == [ type |-> v.type, role |-> v.role, level |-> v.level,
                specialtySkills |-> Join(v.specialtySkills, CommaSpace),
                amount |-> v.amount ]
  IN IF UserId(u) = <<>> THEN base
     ELSE [ type |-> base.type, role |-> base.role, level |-> base.level,
            specialtySkills |-> base.specialtySkills, amount |-> base.amount,
            userid |-> UserId(u)[1] ]

\* what a handler did besides changing the form
\* (op: the handler; arg: the argument of removeSkill; body: the bodies given
\* to fetch; response: how the awaited fetch settled; refreshes, logs: the
\* calls of router.refresh and console.error; escaped: an error left onSubmit)
Op(name, arg, body, response, refreshes, logs, escaped) ==
  [ op |-> name, arg |-> arg, body |-> body, response |-> response,
    refreshes |-> refreshes, logs |-> logs, escaped |-> escaped ]

Quiet(name) == Op(name, <<>>, <<>>, "", 0, 0, FALSE)

(***************************************************************************)
(* Initial state: the component as mounted                                 *)
(***************************************************************************)
Init ==
  /\ values = defaultValues
  /\ skillInput = <<>>
  /\ errors = NoErrors
  /\ user \in Users
  /\ inflight = 0
  /\ lastOp = Quiet("mount")

(***************************************************************************)
(* Field edits                                                             *)
(***************************************************************************)
\* type Select: onValueChange={field.onChange}
SetType ==
  \E t \in TypeInputs :
    /\ values' = [values EXCEPT !.type = t]
    /\ lastOp' = Quiet("onChange")
    /\ UNCHANGED <<skillInput, errors, user, inflight>>

\* role Input: {...field}
SetRole ==
  \E r \in RoleTexts :
    /\ values' = [values EXCEPT !.role = r]
    /\ lastOp' = Quiet("onChange")
    /\ UNCHANGED <<skillInput, errors, user, inflight>>

\* level Select: onValueChange={field.onChange}
SetLevel ==
  \E l \in LevelInputs :
    /\ values' = [values EXCEPT !.level = l]
    /\ lastOp' = Quiet("onChange")
    /\ UNCHANGED <<skillInput, errors, user, inflight>>

\* amount Select: onValueChange={(val) => field.onChange(Number(val))}
SetAmount ==
  \E n \in AmountInputs :
    /\ values' = [values EXCEPT !.amount = n]
    /\ lastOp' = Quiet("onChange")
    /\ UNCHANGED <<skillInput, errors, user, inflight>>

\* staging Input: onChange={(e) => setSkillInput(e.target.value)}
SetSkillInput ==
  \E t \in SkillTexts :
    /\ skillInput' = t
    /\ lastOp' = Quiet("setSkillInput")
    /\ UNCHANGED <<values, errors, user, inflight>>

\* the skills a remove button can be asked to remove
Skills == { Trim(t) : t \in SkillTexts } \ { <<>> }

\* variant: handleAddSkill without the `skill &&` test
AddSkillResultNoEmptyCheck(list, input) ==
  LET skill == Trim(input)
  IN IF ~Includes(list, skill)
       THEN [ specialtySkills |-> list \o <<skill>>, skillInput |-> <<>> ]
       ELSE [ specialtySkills |-> list, skillInput |-> input ]

\* variant: handleAddSkill without .trim()
AddSkillResultNoTrim(list, input) ==
  LET skill == input
  IN IF skill # <<>> /\ ~Includes(list, skill)
       THEN [ specialtySkills |-> list \o <<skill>>, skillInput |-> <<>> ]
       ELSE [ specialtySkills |-> list, skillInput |-> input ]

\* variant: handleAddSkill testing includes on the untrimmed staging text
AddSkillResultRawIncludes(list, input) ==
  LET skill == Trim(input)
  IN IF skill # <<>> /\ ~Includes(list, input)
       THEN [ specialtySkills |-> list \o <<skill>>, skillInput |-> <<>> ]
       ELSE [ specialtySkills |-> list, skillInput |-> input ]

\* handleAddSkill as a function of the committed list and the staging text:
\* the list and the staging text it leaves
AddSkillResult(list, input) ==
  LET skill == Trim(input)
  IN IF skill # <<>> /\ ~Includes(list, skill)
       THEN [ specialtySkills |-> list \o <<skill>>, skillInput |-> <<>> ]
       ELSE [ specialtySkills |-> list, skillInput |-> input ]

\* handleAddSkill (Add button, or Enter in the staging input)
HandleAddSkill ==
  LET r == AddSkillResult(values.specialtySkills, skillInput)
  IN /\ values' = [values EXCEPT !.specialtySkills = r.specialtySkills]
     /\ skillInput' = r.skillInput
     /\ lastOp' = Quiet("addSkill")
     /\ UNCHANGED <<errors, user, inflight>>

\* variant: the filter keeping what it should drop
RemoveSkillResultInverted(list, skill) == SelectSeq(list, LAMBDA s : s = skill)

\* handleRemoveSkill as a function of the committed list and its argument
RemoveSkillResult(list, skill) == FilterNot(list, skill)

\* handleRemoveSkill(skill)
HandleRemoveSkill ==
  \E skill \in Skills :
    /\ values' = [values EXCEPT
                    !.specialtySkills = RemoveSkillResult(values.specialtySkills, skill)]
    /\ lastOp' = Op("removeSkill", skill, <<>>, "", 0, 0, FALSE)
    /\ UNCHANGED <<skillInput, errors, user, inflight>>

(***************************************************************************)
(* Submission                                                              *)
(***************************************************************************)
\* variant: a submit handler that returns while a request is pending
HandleSubmitSerialized ==
  LET errs == formSchema(values)
  IN /\ errors' = errs
     /\ IF errs = NoErrors /\ inflight = 0
          THEN /\ inflight' = inflight + 1
               /\ lastOp' = Op("submit", <<>>, <<RequestBody(values, user)>>, "", 0, 0, FALSE)
          ELSE /\ inflight' = inflight
               /\ lastOp' = Quiet("submit")
     /\ UNCHANGED <<values, skillInput, user>>

\* form.handleSubmit(onSubmit): run the resolver; when it reports no error,
\* call onSubmit(values), which builds the body, calls fetch once and
\* suspends at the await; otherwise record the field errors and stop.
HandleSubmit ==
  LET errs == formSchema(values)
  IN /\ errors' = errs
     /\ IF errs = NoErrors
          THEN /\ inflight < MaxInflight
               /\ inflight' = inflight + 1
               /\ lastOp' = Op("submit", <<>>, <<RequestBody(values, user)>>, "", 0, 0, FALSE)
          ELSE /\ inflight' = inflight
               /\ lastOp' = Quiet("submit")
     /\ UNCHANGED <<values, skillInput, user>>

\* how a fetch can settle: a success status, another status, a rejection
Responses == {"ok", "notOk", "rejected"}

\* variant: onSubmit without `if (!response.ok) throw`
ThrowsOnRejectOnly(response) == response = "rejected"

\* the await and `if (!response.ok) throw` : does the try block throw
Throws(response) == response = "rejected" \/ response = "notOk"

\* the try block is left by an exception the catch clause does not take
Escapes(response) == FALSE

\* variant: onSubmit without form.reset()
OnSubmitSettleNoReset(response, v, e) ==
  IF ~Throws(response)
    THEN [ values |-> v, errors |-> e,
           refreshes |-> 1, logs |-> 0, escaped |-> FALSE ]
    ELSE [ values |-> v, errors |-> e,
           refreshes |-> 0, logs |-> 1, escaped |-> FALSE ]

\* onSubmit from the await on: what it leaves of the form, and what it calls
OnSubmitSettle(response, v, e) ==
  IF ~Throws(response)
    THEN \* form.reset(); router.refresh()
         [ values |-> defaultValues, errors |-> NoErrors,
           refreshes |-> 1, logs |-> 0, escaped |-> FALSE ]
    ELSE IF Escapes(response)
    THEN [ values |-> v, errors |-> e,
           refreshes |-> 0, logs |-> 0, escaped |-> TRUE ]
    ELSE \* catch (err) { console.error(err) }
         [ values |-> v, errors |-> e,
           refreshes |-> 0, logs |-> 1, escaped |-> FALSE ]

\* one suspended onSubmit resumes with the settled fetch
Settle ==
  \E response \in Responses :
    LET r == OnSubmitSettle(response, values, errors)
    IN /\ inflight > 0
       /\ inflight' = inflight - 1
       /\ values' = r.values
       /\ errors' = r.errors
       /\ lastOp' = Op("settle", <<>>, <<>>, response, r.refreshes, r.logs, r.escaped)
       /\ UNCHANGED <<skillInput, user>>

Next ==
  \/ SetType
  \/ SetRole
  \/ SetLevel
  \/ SetAmount
  \/ SetSkillInput
  \/ HandleAddSkill
  \/ HandleRemoveSkill
  \/ HandleSubmit
  \/ Settle

Spec == Init /\ [][Next]_vars

(***************************************************************************)
(* Properties                                                              *)
(***************************************************************************)
Range(s) == {s[i] : i \in 1..Len(s)}

\* s is empty or holds white space only
IsBlank(s) == \A i \in 1..Len(s) : s[i] = " "

\* t is s without the white space at its two ends
IsTrimOf(t, s) ==
  /\ t # <<>> => (t[1] # " " /\ t[Len(t)] # " ")
  /\ \E i \in 0..Len(s) :
       /\ i + Len(t) <= Len(s)
       /\ SubSeq(s, i + 1, i + Len(t)) = t
       /\ \A k \in (1..i) \cup ((i + Len(t) + 1)..Len(s)) : s[k] = " "

NoEmptyNoDuplicate(list) ==
  /\ \A i \in 1..Len(list) : list[i] # <<>>
  /\ \A i, j \in 1..Len(list) : i # j => list[i] # list[j]

RECURSIVE StartOf(_, _)
\* where element i starts in the joined string (0-based)
StartOf(list, i) ==
  IF i = 1 THEN 0 ELSE StartOf(list, i - 1) + Len(list[i - 1]) + 2

\* str is the elements of list in list order, ", " between neighbours
IsJoinOf(str, list) ==
  IF list = <<>> THEN str = <<>>
  ELSE /\ Len(str) = StartOf(list, Len(list)) + Len(list[Len(list)])
       /\ \A i \in 1..Len(list) :
            SubSeq(str, StartOf(list, i) + 1, StartOf(list, i) + Len(list[i])) = list[i]
       /\ \A i \in 1..(Len(list) - 1) :
            /\ str[StartOf(list, i) + Len(list[i]) + 1] = ","
            /\ str[StartOf(list, i) + Len(list[i]) + 2] = " "

\* the draft meets the data model's constraints
ValidDraft(v) ==
  /\ v.type # <<>> /\ v.role # <<>> /\ v.level # <<>>
  /\ v.specialtySkills # <<>>
  /\ \A i \in 1..Len(v.specialtySkills) : v.specialtySkills[i] # <<>>
  /\ v.amount \in {3, 5, 10, 15, 20}

\* new is old without its elements equal to skill, the rest in old's order
IsFilteredOf(new, old, skill) ==
  /\ Range(new) = Range(old) \ {skill}
  /\ Len(new) = Cardinality({ i \in 1..Len(old) : old[i] # skill })
  /\ \A i, j \in 1..Len(new) :
       i < j => \E a, b \in 1..Len(old) : a < b /\ old[a] = new[i] /\ old[b] = new[j]

\* C1: in every reachable state the committed specialtySkills list holds no
\* empty string and no two equal strings.
C1_SkillsNoEmptyNoDuplicate == NoEmptyNoDuplicate(values.specialtySkills)

C1_Witness ==
  /\ lastOp.op = "addSkill"
  /\ Len(values.specialtySkills) = 3

\* C2 (as claimed): a submit attempt on a draft whose type, role or level is
\* empty or white space only is blocked by validation: onSubmit is not run, so
\* no request body is built and no request is issued.
C2_BlankBlocksSubmit ==
  [][ ( /\ lastOp'.op = "submit"
        /\ (IsBlank(values.type) \/ IsBlank(values.role) \/ IsBlank(values.level)) )
      => ( /\ lastOp'.body = <<>>
           /\ inflight' = inflight ) ]_vars

\* C3: a submit attempt on a draft with an empty specialtySkills list is
\* blocked with the minimum-count error on specialtySkills: no request body is
\* built, no request is issued, and the draft and staging text are unchanged.
C3_EmptySkillsBlocksSubmit ==
  [][ ( /\ lastOp'.op = "submit"
        /\ values.specialtySkills = <<>> )
      => ( /\ lastOp'.body = <<>>
           /\ inflight' = inflight
           /\ values' = values
           /\ skillInput' = skillInput
           /\ "specialtySkills" \in DOMAIN errors'
           /\ errors'["specialtySkills"] = "Please add at least one skill." ) ]_vars

C3_Witness ==
  /\ lastOp.op = "submit"
  /\ values.specialtySkills = <<>>
  /\ values.type # <<>> /\ ~IsBlank(values.role) /\ values.level # <<>>
  /\ lastOp.body = <<>>
  /\ DOMAIN errors = {"specialtySkills"}

\* C4: a submit attempt on a valid draft issues exactly one request, whose
\* body carries the draft's type, role, level and amount, specialtySkills as
\* the list's elements joined in order with ", ", and userid the current
\* user's id (no userid when there is no user); a settling request issues
\* no further request.
C4_OneRequestWithJoinedBody ==
  [][ /\ ( /\ lastOp'.op = "submit"
           /\ ValidDraft(values) )
         => ( /\ inflight' = inflight + 1
              /\ Len(lastOp'.body) = 1
              /\ LET b == lastOp'.body[1]
                 IN /\ b.type = values.type
                    /\ b.role = values.role
                    /\ b.level = values.level
                    /\ b.amount = values.amount
                    /\ IsJoinOf(b.specialtySkills, values.specialtySkills)
                    /\ IF user = <<>>
                         THEN DOMAIN b = {"type", "role", "level", "specialtySkills", "amount"}
                         ELSE /\ DOMAIN b = {"type", "role", "level", "specialtySkills",
                                             "amount", "userid"}
                              /\ b.userid = user[1].id )
      /\ lastOp'.op = "settle"
         => ( /\ lastOp'.body = <<>>
              /\ inflight' = inflight - 1 ) ]_vars

C4_Witness ==
  /\ lastOp.op = "submit"
  /\ Len(lastOp.body) = 1
  /\ user # <<>>
  /\ values.specialtySkills = << <<"a">>, <<"A">> >>
  /\ lastOp.body[1].specialtySkills = <<"a", ",", " ", "A">>
  /\ lastOp.body[1].userid = "u_123"

\* C5: when a request settles with a success status, the draft becomes the
\* defaults (type, role, level empty, no skills, amount 5) whatever it held,
\* and the host-view refresh is requested exactly once.
C5_SuccessResetsAndRefreshesOnce ==
  [][ ( /\ lastOp'.op = "settle"
        /\ lastOp'.response = "ok" )
      => ( /\ values' = [ type |-> <<>>, role |-> <<>>, level |-> <<>>,
                          specialtySkills |-> <<>>, amount |-> 5 ]
           /\ lastOp'.refreshes = 1 ) ]_vars

C5_Witness ==
  /\ lastOp.op = "settle"
  /\ lastOp.response = "ok"
  /\ lastOp.refreshes = 1
  /\ values.specialtySkills = <<>> /\ values.amount = 5
  /\ inflight = 0

\* C6: when a request settles with a non-success status or the fetch is
\* rejected, the draft and staging text are left as they were, no refresh is
\* requested, the field errors are unchanged and no error leaves onSubmit.
C6_FailureLeavesDraft ==
  [][ ( /\ lastOp'.op = "settle"
        /\ lastOp'.response \in {"notOk", "rejected"} )
      => ( /\ values' = values
           /\ skillInput' = skillInput
           /\ errors' = errors
           /\ lastOp'.refreshes = 0
           /\ ~lastOp'.escaped ) ]_vars

C6_Witness ==
  /\ lastOp.op = "settle"
  /\ lastOp.response = "notOk"
  /\ lastOp.logs = 1
  /\ ValidDraft(values)

\* C7: addSkill with a staging text whose trimmed value is non-empty and not
\* in the list appends exactly the trimmed value at the end, keeps the earlier
\* elements in order and clears the staging text; addSkill again, with the
\* staging text as left or with the same text typed again, adds nothing more.
C7_AddAppendsTrimmedOnce ==
  [][ /\ ( /\ lastOp'.op = "addSkill"
           /\ ~IsBlank(skillInput)
           /\ ~\E i \in 1..Len(values.specialtySkills) :
                  IsTrimOf(values.specialtySkills[i], skillInput) )
         => ( LET old == values.specialtySkills
                  new == values'.specialtySkills
              IN /\ Len(new) = Len(old) + 1
                 /\ SubSeq(new, 1, Len(old)) = old
                 /\ IsTrimOf(new[Len(new)], skillInput)
                 /\ skillInput' = <<>>
                 /\ AddSkillResult(new, skillInput').specialtySkills = new
                 /\ AddSkillResult(new, skillInput).specialtySkills = new )
      /\ ( lastOp.op = "addSkill" /\ lastOp'.op = "addSkill" )
         => values'.specialtySkills = values.specialtySkills ]_vars

C7_Witness ==
  /\ lastOp.op = "addSkill"
  /\ skillInput = <<>>
  /\ values.specialtySkills = << <<"A">>, <<"a">> >>

\* C8: addSkill changes neither the list nor the staging text when the
\* staging text is empty or white space only, or its trimmed value is already
\* in the list (exact, case-sensitive match).
C8_AddNoOp ==
  [][ ( /\ lastOp'.op = "addSkill"
        /\ \/ IsBlank(skillInput)
           \/ \E i \in 1..Len(values.specialtySkills) :
                IsTrimOf(values.specialtySkills[i], skillInput) )
      => ( /\ values' = values
           /\ skillInput' = skillInput ) ]_vars

C8_Witness ==
  /\ lastOp.op = "addSkill"
  /\ skillInput = <<" ", "a", " ">>
  /\ values.specialtySkills = << <<"A">>, <<"a">> >>

\* C9: removeSkill(skill) leaves the list without the elements equal to
\* skill and with the others in their order; the list is unchanged when skill
\* is not in it; the staging text and the other draft fields are untouched.
C9_RemoveFilters ==
  [][ lastOp'.op = "removeSkill"
      => ( LET old == values.specialtySkills
               new == values'.specialtySkills
               skill == lastOp'.arg
           IN /\ IsFilteredOf(new, old, skill)
              /\ skill \notin Range(old) => new = old
              /\ skillInput' = skillInput
              /\ values'.type = values.type
              /\ values'.role = values.role
              /\ values'.level = values.level
              /\ values'.amount = values.amount ) ]_vars

C9_Witness ==
  /\ lastOp.op = "removeSkill"
  /\ lastOp.arg = <<"A">>
  /\ values.specialtySkills = << <<"a">>, <<"b">> >>
  /\ skillInput # <<>>

\* C10: a submit on a valid draft while a request is pending issues a second
\* request (nothing serializes submissions), and when one of two pending
\* requests settles with success the draft is reset while the other request
\* is still pending.
C10_OverlappingSubmissions ==
  [][ /\ ( /\ lastOp'.op = "submit"
           /\ ValidDraft(values)
           /\ inflight >= 1 )
         => ( /\ inflight' = inflight + 1
              /\ Len(lastOp'.body) = 1 )
      /\ ( /\ lastOp'.op = "settle"
           /\ lastOp'.response = "ok"
           /\ inflight >= 2 )
         => ( /\ values' = defaultValues
              /\ inflight' = inflight - 1
              /\ inflight' >= 1 ) ]_vars

C10_Witness ==
  /\ lastOp.op = "settle"
  /\ lastOp.response = "ok"
  /\ values = defaultValues
  /\ inflight = 1

====
